---------------------------- MODULE Spec2Model ----------------------------
(***************************************************************************)
(* A model of gfxmath.hh: gfx::vector<scalar_type, DIMENSION> and          *)
(* gfx::matrix<scalar_type, HEIGHT, WIDTH> with scalar_type = int.         *)
(*                                                                         *)
(* A vector is a function from 0..DIMENSION-1 to Int (std::array           *)
(* _elements); a matrix is a function from 0..HEIGHT-1 to row vectors      *)
(* (std::array<row_type, HEIGHT> _rows).  The template parameters are the  *)
(* sizes of the domains.  The build (g++ -std=c++11, no -DNDEBUG) keeps    *)
(* assert() active, so a failed assert ends the call, and the program,     *)
(* without a value: the result "assert".                                   *)
(***************************************************************************)
EXTENDS Integers, Sequences, FiniteSets, TLC

VARIABLES
  m,       \* the receiver matrix (*this of a matrix member function)
  m2,      \* a second matrix: the right operand of matrix * matrix, a copy
  m3,      \* a third matrix: the last factor of a product of three
  v,       \* a vector: the receiver of a vector member function, or solve's b
  v2,      \* a second vector: the right operand of cross
  x,       \* Ok(the vector v was computed from as m * x), or NoRes
  writes,  \* the number of indexed writes made so far
  op,      \* the last operation that ran ("init" before any)
  args,    \* the integer arguments of op, as a sequence
  res      \* the outcome of op

vars == <<m, m2, m3, v, v2, x, writes, op, args, res>>

(***************************************************************************)
(* Bounds of the model.                                                    *)
(***************************************************************************)
\* Written, filled and default values are drawn from -MaxVal..MaxVal.
MaxVal == 1
\* Indexed writes (m[r][c] = x, v[i] = x) made after construction.
MaxWrites == 1
\* Index arguments range from -IdxSlack to IdxSlack past the last valid index.
IdxSlack == 2

\* "vectors/matrices are only expected to be 4D or smaller"
MaxDim == 4

Vals == (0 - MaxVal)..MaxVal
Dims == 1..MaxDim

(***************************************************************************)
(* Outcomes of a call.                                                     *)
(***************************************************************************)
Ok(val) == [st |-> "ok", val |-> val]
\* assert(...) failed: abort, no value is returned.
AssertFail == [st |-> "assert", val |-> <<>>]
\* An int division by zero trapped (SIGFPE): no value is returned.
DivTrap == [st |-> "trap", val |-> <<>>]
\* No call has returned; also the value of x while v is not known to be
\* m * (some vector), and that of the operands a specification leaves
\* unused is a 1 x 1 zero matrix or a zero vector of length 1.
NoRes == [st |-> "none", val |-> <<>>]

(***************************************************************************)
(* scalar_type = int: / truncates toward zero.                             *)
(***************************************************************************)
Abs(a) == IF a < 0 THEN 0 - a ELSE a

int_div(a, b) ==
  LET q == Abs(a) \div Abs(b)
  IN IF (a < 0) = (b < 0) THEN q ELSE 0 - q

(***************************************************************************)
(* gfx::vector                                                             *)
(***************************************************************************)
dimension(this) == Cardinality(DOMAIN this)

is_index(i, DIMENSION) == (i >= 0) /\ (i < DIMENSION)

\* vector(scalar_type default_value = 0): fill(default_value)
vector_fill(DIMENSION, default_value) ==
  [i \in 0..(DIMENSION - 1) |-> default_value]

\* An iterator of the initializer list il is a position, 1 for il.begin() and
\* Len(il) + 1 for il.end().
il_next_missing(it) == it

\* it++
il_next(it) == it + 1

\* for (i = 0; i < DIMENSION; ++i)
\*   if (it != il.end()) { _elements[i] = *it; it++; } else _elements[i] = 0;
RECURSIVE vector_il_loop(_, _, _, _, _)
vector_il_loop(DIMENSION, il, i, it, elements) ==
  IF ~(i < DIMENSION) THEN elements
  ELSE IF it # (Len(il) + 1)
  THEN vector_il_loop(DIMENSION, il, i + 1, il_next(it),
                      [elements EXCEPT ![i] = il[it]])
  ELSE vector_il_loop(DIMENSION, il, i + 1, it,
                      [elements EXCEPT ![i] = 0])

\* vector(std::initializer_list<scalar_type> il): the loop assigns every
\* element, so the value _elements starts with is never read.
vector_il(DIMENSION, il) ==
  vector_il_loop(DIMENSION, il, 0, 1, [i \in 0..(DIMENSION - 1) |-> 0])

(***************************************************************************)
(* gfx::matrix                                                             *)
(***************************************************************************)
HEIGHT(this) == Cardinality(DOMAIN this)
WIDTH(this) == Cardinality(DOMAIN this[0])

is_row(r, H) == (r >= 0) /\ (r < H)
is_column(c, W) == (c >= 0) /\ (c < W)
is_square(this) == WIDTH(this) = HEIGHT(this)

\* matrix(scalar_type default_value = 0): fill(default_value)
matrix_fill(H, W, default_value) ==
  [i \in 0..(H - 1) |-> vector_fill(W, default_value)]

\* for (i < HEIGHT) for (j < WIDTH)
\*   if (it != il.end()) { _rows[i][j] = *it; it++; } else _rows[i][j] = 0;
RECURSIVE matrix_il_loop(_, _, _, _, _, _, _)
matrix_il_loop(H, W, il, i, j, it, rows) ==
  IF ~(i < H) THEN rows
  ELSE IF ~(j < W) THEN matrix_il_loop(H, W, il, i + 1, 0, it, rows)
  ELSE IF it # (Len(il) + 1)
  THEN matrix_il_loop(H, W, il, i, j + 1, il_next(it),
                      [rows EXCEPT ![i][j] = il[it]])
  ELSE matrix_il_loop(H, W, il, i, j + 1, it,
                      [rows EXCEPT ![i][j] = 0])

\* matrix(std::initializer_list<scalar_type> il): the loops assign every
\* cell, so the value _rows starts with is never read.
matrix_il(H, W, il) ==
  matrix_il_loop(H, W, il, 0, 0, 1, matrix_fill(H, W, 0))

set_cell_on_copy(this, r, c, value) == this

\* this[r][c] = value with r and c valid: the row is a reference into _rows.
set_cell(this, r, c, value) == [this EXCEPT ![r][c] = value]

(***************************************************************************)
(* matrix::determinant                                                     *)
(***************************************************************************)
determinant2(this) ==
  (this[0][0] * this[1][1]) - (this[1][0] * this[0][1])

determinant3_wrongterm(this) ==
  LET d1 == 0 + (this[0][0] * this[1][1] * this[2][2])
      d2 == d1 + (this[0][1] * this[1][2] * this[2][0])
      d3 == d2 + (this[0][2] * this[1][0] * this[2][1])
      d4 == d3 - (this[0][2] * this[1][1] * this[2][0])
      d5 == d4 - (this[0][1] * this[1][0] * this[2][2])
      d6 == d5 - (this[0][0] * this[1][2] * this[2][0])
  IN d6

determinant3(this) ==
  LET d1 == 0 + (this[0][0] * this[1][1] * this[2][2])
      d2 == d1 + (this[0][1] * this[1][2] * this[2][0])
      d3 == d2 + (this[0][2] * this[1][0] * this[2][1])
      d4 == d3 - (this[0][2] * this[1][1] * this[2][0])
      d5 == d4 - (this[0][1] * this[1][0] * this[2][2])
      d6 == d5 - (this[0][0] * this[1][2] * this[2][1])
  IN d6

\* static_assert: square, WIDTH 2 or 3; det starts at 0 and the branch for
\* the WIDTH adds to it.
determinant(this) ==
  LET det0 == 0
      det1 == IF WIDTH(this) = 2 THEN det0 + determinant2(this) ELSE det0
      det2 == IF WIDTH(this) = 3 THEN det1 + determinant3(this) ELSE det1
  IN det2

(***************************************************************************)
(* matrix::solve (Cramer's rule)                                           *)
(***************************************************************************)
\* cramer = (*this): the working copy is set back to the receiver.
solve_restore_skipped(cramer, this) == cramer

solve_restore(cramer, this) == this

solve_component_divide_first(cramer, det) ==
  determinant([i \in DOMAIN cramer |->
                 [j \in DOMAIN cramer[i] |-> int_div(cramer[i][j], det)]])

\* cramsol[i] = cramer.determinant() / det
solve_component(cramer, det) == int_div(determinant(cramer), det)

\* HEIGHT == 2
solve2(this, b) ==
  LET det == determinant(this)
      cramer0 == this
      cramer1 == set_cell(set_cell(cramer0, 0, 0, b[0]), 1, 0, b[1])
      cramsol0 == [vector_fill(2, 0) EXCEPT ![0] = solve_component(cramer1, det)]
      cramer2 == solve_restore(cramer1, this)
      cramer3 == set_cell(set_cell(cramer2, 0, 1, b[0]), 1, 1, b[1])
      cramsol1 == [cramsol0 EXCEPT ![1] = solve_component(cramer3, det)]
  IN cramsol1

\* for (j = 0; j < 3; j++) cramer[j][i] = b[j];
RECURSIVE solve3_column(_, _, _, _)
solve3_column(cramer, b, i, j) ==
  IF ~(j < 3) THEN cramer
  ELSE solve3_column(set_cell(cramer, j, i, b[j]), b, i, j + 1)

\* for (i = 0; i < 3; i++) { ...; cramsol[i] = ...; cramer = (*this); }
RECURSIVE solve3_loop(_, _, _, _, _, _)
solve3_loop(this, b, det, i, cramer, cramsol) ==
  IF ~(i < 3) THEN cramsol
  ELSE LET replaced == solve3_column(cramer, b, i, 0)
           sol == [cramsol EXCEPT ![i] = solve_component(replaced, det)]
       IN solve3_loop(this, b, det, i + 1, solve_restore(replaced, this), sol)

\* HEIGHT == 3
solve3(this, b) ==
  solve3_loop(this, b, determinant(this), 0, this, vector_fill(3, 0))

\* The outcomes of this.solve(b).  With det == 0 the first division is an int
\* division by zero, undefined behaviour: the division instruction traps, or
\* (where it does not trap) yields 0 for every component.
solve(this, b) ==
  IF determinant(this) = 0
  THEN {DivTrap, Ok(vector_fill(HEIGHT(this), 0))}
  ELSE IF HEIGHT(this) = 2 THEN {Ok(solve2(this, b))}
  ELSE {Ok(solve3(this, b))}

(***************************************************************************)
(* matrix::operator*(matrix)                                               *)
(***************************************************************************)
multiply_reset_missing(crossval) == crossval

\* crossval = 0, at the start of every cell
multiply_reset(crossval) == 0

\* (*this)[i][k] * rhs[k][j]
multiply_term(this, rhs, i, j, k) == this[i][k] * rhs[k][j]

\* for (k = 0; k < WIDTH; k++) crossval += (*this)[i][k] * rhs[k][j];
RECURSIVE multiply_inner(_, _, _, _, _, _)
multiply_inner(this, rhs, i, j, k, crossval) ==
  IF ~(k < WIDTH(this)) THEN crossval
  ELSE multiply_inner(this, rhs, i, j, k + 1,
                      crossval + multiply_term(this, rhs, i, j, k))

\* for (i ...) for (j ...) { crossval = 0; ...; crossed[i][j] = crossval; }
\* crossval is declared once, outside the loops.
RECURSIVE multiply_loop(_, _, _, _, _, _)
multiply_loop(this, rhs, i, j, crossed, crossval) ==
  IF ~(i < HEIGHT(this)) THEN crossed
  ELSE IF ~(j < WIDTH(rhs)) THEN multiply_loop(this, rhs, i + 1, 0, crossed, crossval)
  ELSE LET sum == multiply_inner(this, rhs, i, j, 0, multiply_reset(crossval))
       IN multiply_loop(this, rhs, i, j + 1, set_cell(crossed, i, j, sum), sum)

\* this * rhs, rhs of height WIDTH (the template's shape constraint)
multiply(this, rhs) ==
  multiply_loop(this, rhs, 0, 0, matrix_fill(HEIGHT(this), WIDTH(rhs), 0), 0)

(***************************************************************************)
(* matrix::column_matrix, column_vector, row_matrix, row_vector            *)
(***************************************************************************)
\* col[i][j] = (*this)[i][j] in the H x 1 matrix col: the row index i and the
\* column index j are asserted on both sides.
RECURSIVE column_matrix_loop(_, _, _, _, _)
column_matrix_loop(this, column, i, j, col) ==
  IF ~(i < HEIGHT(this)) THEN Ok(col)
  ELSE IF ~(j <= column) THEN column_matrix_loop(this, column, i + 1, 0, col)
  ELSE IF j = column
       THEN IF /\ is_row(i, HEIGHT(this)) /\ is_index(j, WIDTH(this))
               /\ is_row(i, HEIGHT(col)) /\ is_index(j, WIDTH(col))
            THEN column_matrix_loop(this, column, i, j + 1,
                                    set_cell(col, i, j, this[i][j]))
            ELSE AssertFail
       ELSE column_matrix_loop(this, column, i, j + 1, col)

column_matrix(this, column) ==
  column_matrix_loop(this, column, 0, 0, matrix_fill(HEIGHT(this), 1, 0))

\* col[i] = (*this)[i][j]
RECURSIVE column_vector_loop(_, _, _, _, _)
column_vector_loop(this, column, i, j, col) ==
  IF ~(i < HEIGHT(this)) THEN Ok(col)
  ELSE IF ~(j <= column) THEN column_vector_loop(this, column, i + 1, 0, col)
  ELSE IF j = column
       THEN IF /\ is_row(i, HEIGHT(this)) /\ is_index(j, WIDTH(this))
               /\ is_index(i, dimension(col))
            THEN column_vector_loop(this, column, i, j + 1,
                                    [col EXCEPT ![i] = this[i][j]])
            ELSE AssertFail
       ELSE column_vector_loop(this, column, i, j + 1, col)

column_vector_inner_bound_exclusive(this, column) ==
  Ok(vector_fill(HEIGHT(this), 0))

column_vector(this, column) ==
  column_vector_loop(this, column, 0, 0, vector_fill(HEIGHT(this), 0))

\* rowmat[0][j] = (*this)[i][j] when i == row
RECURSIVE row_matrix_loop(_, _, _, _, _)
row_matrix_loop(this, row, i, j, rowmat) ==
  IF ~(i <= row) THEN Ok(rowmat)
  ELSE IF ~(j < WIDTH(this)) THEN row_matrix_loop(this, row, i + 1, 0, rowmat)
  ELSE IF i = row
       THEN IF /\ is_row(i, HEIGHT(this)) /\ is_index(j, WIDTH(this))
               /\ is_row(0, HEIGHT(rowmat)) /\ is_index(j, WIDTH(rowmat))
            THEN row_matrix_loop(this, row, i, j + 1,
                                 set_cell(rowmat, 0, j, this[i][j]))
            ELSE AssertFail
       ELSE row_matrix_loop(this, row, i, j + 1, rowmat)

\* assert(is_row(row)) comes first.
row_matrix(this, row) ==
  IF ~is_row(row, HEIGHT(this)) THEN AssertFail
  ELSE row_matrix_loop(this, row, 0, 0, matrix_fill(1, WIDTH(this), 0))

\* rowvec[j] = (*this)[i][j] when i == row
RECURSIVE row_vector_loop(_, _, _, _, _)
row_vector_loop(this, row, i, j, rowvec) ==
  IF ~(i <= row) THEN Ok(rowvec)
  ELSE IF ~(j < WIDTH(this)) THEN row_vector_loop(this, row, i + 1, 0, rowvec)
  ELSE IF i = row
       THEN IF /\ is_row(i, HEIGHT(this)) /\ is_index(j, WIDTH(this))
               /\ is_index(j, dimension(rowvec))
            THEN row_vector_loop(this, row, i, j + 1,
                                 [rowvec EXCEPT ![j] = this[i][j]])
            ELSE AssertFail
       ELSE row_vector_loop(this, row, i, j + 1, rowvec)

\* No assert on row: only the element reads are checked.
row_vector(this, row) ==
  row_vector_loop(this, row, 0, 0, vector_fill(WIDTH(this), 0))

(***************************************************************************)
(* matrix::submatrix                                                       *)
(***************************************************************************)
submatrix_source_unshifted(i, j, top, left) == <<i, j>>

\* the cell read for sub[i][j]: (*this)[i+top][j+left]
submatrix_source(i, j, top, left) == <<i + top, j + left>>

\* sub[i][j] = (*this)[i+top][j+left]
RECURSIVE submatrix_loop(_, _, _, _, _, _)
submatrix_loop(this, top, left, i, j, sub) ==
  IF ~(i < HEIGHT(sub)) THEN Ok(sub)
  ELSE IF ~(j < WIDTH(sub)) THEN submatrix_loop(this, top, left, i + 1, 0, sub)
  ELSE LET src == submatrix_source(i, j, top, left)
       IN IF /\ is_row(src[1], HEIGHT(this)) /\ is_index(src[2], WIDTH(this))
             /\ is_row(i, HEIGHT(sub)) /\ is_index(j, WIDTH(sub))
          THEN submatrix_loop(this, top, left, i, j + 1,
                              set_cell(sub, i, j, this[src[1]][src[2]]))
          ELSE AssertFail

\* static_assert: 0 < RESULT_HEIGHT <= HEIGHT, 0 < RESULT_WIDTH <= WIDTH
submatrix(this, RESULT_HEIGHT, RESULT_WIDTH, top, left) ==
  submatrix_loop(this, top, left, 0, 0,
                 matrix_fill(RESULT_HEIGHT, RESULT_WIDTH, 0))

(***************************************************************************)
(* vector::cross, vector::subvector                                        *)
(***************************************************************************)
cross_middle_unnegated(this, rhs) == (this[0] * rhs[2]) - (this[2] * rhs[0])

\* crossed[1] = 0 - (((*this)[0] * rhs[2]) - ((*this)[2] * rhs[0]))
cross_middle(this, rhs) == 0 - ((this[0] * rhs[2]) - (this[2] * rhs[0]))

\* No static_assert on DIMENSION: the body runs for every DIMENSION, and its
\* reads and writes of elements 0, 1 and 2 are asserted by operator[].
cross(this, rhs) ==
  IF /\ is_index(0, dimension(this)) /\ is_index(1, dimension(this))
     /\ is_index(2, dimension(this))
  THEN LET crossed0 == this
           crossed1 == [crossed0 EXCEPT ![0] = (this[1] * rhs[2]) - (this[2] * rhs[1])]
           crossed2 == [crossed1 EXCEPT ![1] = cross_middle(this, rhs)]
           crossed3 == [crossed2 EXCEPT ![2] = (this[0] * rhs[1]) - (this[1] * rhs[0])]
       IN Ok(crossed3)
  ELSE AssertFail

subvector_source_unshifted(start_index, i) == i

\* the element read for part[i]: (*this)[start_index + i]
subvector_source(start_index, i) == start_index + i

\* part[i] = (*this)[start_index + i]
RECURSIVE subvector_loop(_, _, _, _)
subvector_loop(this, start_index, i, part) ==
  IF ~(i < dimension(part)) THEN Ok(part)
  ELSE LET src == subvector_source(start_index, i)
       IN IF is_index(src, dimension(this)) /\ is_index(i, dimension(part))
          THEN subvector_loop(this, start_index, i + 1,
                              [part EXCEPT ![i] = this[src]])
          ELSE AssertFail

\* static_assert: RESULT_DIMENSION <= DIMENSION;
\* assert(is_index(start_index + RESULT_DIMENSION - 1))
subvector(this, RESULT_DIMENSION, start_index) ==
  IF ~is_index(start_index + RESULT_DIMENSION - 1, dimension(this))
  THEN AssertFail
  ELSE subvector_loop(this, start_index, 0, vector_fill(RESULT_DIMENSION, 0))

(***************************************************************************)
(* Inputs: the systems of gfxmath_test.cc.                                 *)
(***************************************************************************)
TestSystems2 ==
  { <<matrix_il(2, 2, <<4, -3, 6, 5>>), vector_il(2, <<11, 7>>)>>,
    <<matrix_il(2, 2, <<3, 5, 1, 4>>), vector_il(2, <<-7, -14>>)>>,
    <<matrix_il(2, 2, <<1, -4, -1, 5>>), vector_il(2, <<-9, 11>>)>>,
    <<matrix_il(2, 2, <<-2, 3, 3, -4>>), vector_il(2, <<-3, 5>>)>>,
    <<matrix_il(2, 2, <<5, 1, 3, -2>>), vector_il(2, <<-13, 0>>)>> }

TestSystems3 ==
  { <<matrix_il(3, 3, <<1, 2, 3, 3, 1, -3, -3, 4, 7>>), vector_il(3, <<-5, 4, -7>>)>>,
    <<matrix_il(3, 3, <<-2, -1, -3, 2, -3, 1, 2, 0, -3>>), vector_il(3, <<3, -13, -11>>)>>,
    <<matrix_il(3, 3, <<0, -1, -2, 1, 0, 3, 7, 1, 1>>), vector_il(3, <<-8, 2, 0>>)>>,
    <<matrix_il(3, 3, <<-2, 1, 1, -4, 2, -1, -6, -3, 1>>), vector_il(3, <<4, 8, 0>>)>> }

\* The matrices of the criterion "matrix determinant".
TestDeterminants ==
  { matrix_il(2, 2, <<4, 6, 3, 8>>),
    matrix_il(2, 2, <<1, 2, 3, 4>>),
    matrix_il(3, 3, <<0, 1, 2, 3, 4, 5, 6, 7, 8>>),
    matrix_il(3, 3, <<6, 1, 1, 4, -2, 5, 2, 8, 7>>),
    matrix_il(3, 3, <<2, -3, 1, 2, 0, -1, 1, 4, 5>>) }

\* The operands of the criterion "matrix multiplication".
TestProducts ==
  { <<matrix_il(3, 2, <<0, 1, 2, 3, 4, 5>>),
      matrix_il(2, 4, <<6, 7, 8, 9, 0, 1, 2, 3>>)>>,
    <<matrix_il(2, 3, <<1, 2, 3, 4, 5, 6>>),
      matrix_il(3, 2, <<7, 8, 9, 10, 11, 12>>)>> }

\* count_matrix({1, 2, 3, 4, 5, 6, 7, 8, 9}), for every shape: the cells
\* hold 1, 2, ... in row-major order.
count_matrix(H, W) == matrix_il(H, W, [k \in 1..(H * W) |-> k])

\* The operands of the criterion "vector cross product".
TestCrosses ==
  { <<vector_il(3, <<3, -3, 1>>), vector_il(3, <<4, 9, 2>>)>>,
    <<vector_il(3, <<0, 1, 1>>), vector_il(3, <<1, -1, 3>>)>>,
    <<vector_il(3, <<2, 3, 4>>), vector_il(3, <<5, 6, 7>>)>>,
    <<vector_il(3, <<3, -2, -2>>), vector_il(3, <<-1, 0, 5>>)>> }

\* big({2, 3, 4, 5, 6, 7}) of the criterion "vector subvector, shrink, and
\* grow", cut to the dimension.
big(DIMENSION) == vector_il(DIMENSION, <<2, 3, 4, 5, 6, 7>>)


(***************************************************************************)
(* Operations shared by the specifications.                                *)
(***************************************************************************)
\* No call has produced its outcome yet: a behaviour constructs the operands,
\* writes to them, and ends with the one call whose outcome res holds (a
\* failed assert or a trap ends the program anyway).
Running == res.st = "none"

RowArgs(this) == (0 - IdxSlack)..(HEIGHT(this) - 1 + IdxSlack)
ColArgs(this) == (0 - IdxSlack)..(WIDTH(this) - 1 + IdxSlack)
ElemArgs(this) == (0 - IdxSlack)..(dimension(this) - 1 + IdxSlack)

\* m[r][c] = value, r drawn from Rows and c from Cols, while v is not a
\* product made from m: matrix::operator[]
\* (non-const) asserts is_row(r), then vector::operator[] (non-const) asserts
\* is_index(c).
WriteCell(Rows, Cols) ==
  /\ Running
  /\ x = NoRes
  /\ writes < MaxWrites
  /\ \E r \in Rows, c \in Cols, value \in Vals :
       /\ args' = <<r, c, value>>
       /\ IF is_row(r, HEIGHT(m)) /\ is_index(c, WIDTH(m))
          THEN /\ m' = set_cell(m, r, c, value)
               /\ res' = NoRes
               /\ writes' = writes + 1
          ELSE /\ m' = m
               /\ res' = AssertFail
               /\ writes' = writes
  /\ op' = "write_cell"
  /\ UNCHANGED <<m2, m3, v, v2, x>>

\* v[i] = value, i drawn from Elems, while v is not a product made from m:
\* vector::operator[] (non-const) asserts
\* is_index(i).
WriteElem(Elems) ==
  /\ Running
  /\ x = NoRes
  /\ writes < MaxWrites
  /\ \E i \in Elems, value \in Vals :
       /\ args' = <<i, value>>
       /\ IF is_index(i, dimension(v))
          THEN /\ v' = [v EXCEPT ![i] = value]
               /\ res' = NoRes
               /\ writes' = writes + 1
          ELSE /\ v' = v
               /\ res' = AssertFail
               /\ writes' = writes
  /\ op' = "write_elem"
  /\ UNCHANGED <<m, m2, m3, v2, x>>

\* m.determinant()
Determinant ==
  /\ Running
  /\ is_square(m) /\ WIDTH(m) \in {2, 3}
  /\ op' = "determinant"
  /\ args' = <<>>
  /\ res' = Ok(determinant(m))
  /\ UNCHANGED <<m, m2, m3, v, v2, x, writes>>

SolveOnReceiver ==
  /\ Running
  /\ is_square(m) /\ WIDTH(m) \in {2, 3}
  /\ dimension(v) = HEIGHT(m)
  /\ op' = "solve"
  /\ args' = <<>>
  /\ res' \in solve(m, v)
  /\ m' = [i \in DOMAIN m |-> [m[i] EXCEPT ![WIDTH(m) - 1] = v[i]]]
  /\ UNCHANGED <<m2, m3, v, v2, x, writes>>

\* m.solve(v): a const member function whose argument is a const reference;
\* the columns are replaced in the local copy cramer.
Solve ==
  /\ Running
  /\ is_square(m) /\ WIDTH(m) \in {2, 3}
  /\ dimension(v) = HEIGHT(m)
  /\ op' = "solve"
  /\ args' = <<>>
  /\ res' \in solve(m, v)
  /\ UNCHANGED <<m, m2, m3, v, v2, x, writes>>

\* v = (m * X).column_vector(0), X the n x 1 matrix built from the list of
\* v's elements: the right-hand side b = m * x for the solution x = v.
MakeRhs ==
  /\ Running
  /\ is_square(m) /\ WIDTH(m) \in {2, 3}
  /\ dimension(v) = HEIGHT(m)
  /\ x = NoRes
  /\ LET X == matrix_il(dimension(v), 1, [k \in 1..dimension(v) |-> v[k - 1]])
         b == column_vector(multiply(m, X), 0)
     IN /\ v' = b.val
        /\ x' = Ok(v)
  /\ op' = "make_rhs"
  /\ args' = <<>>
  /\ res' = NoRes
  /\ UNCHANGED <<m, m2, m3, v2, writes>>

(***************************************************************************)
(* SpecSolve: square 2x2 and 3x3 systems.                                  *)
(***************************************************************************)
InitSolve ==
  /\ \/ \E s \in TestSystems2 \cup TestSystems3 : m = s[1] /\ v = s[2]
     \/ \E s \in TestSystems2 \cup TestSystems3, d \in Vals :
          m = s[1] /\ v = vector_fill(HEIGHT(m), d)
     \/ /\ m \in TestDeterminants
        /\ v = vector_fill(HEIGHT(m), 0)
     \/ \E n \in {2, 3}, d \in Vals, e \in Vals :
          /\ m = matrix_fill(n, n, d)
          /\ v = vector_fill(n, e)
  /\ m2 = matrix_fill(1, 1, 0)
  /\ m3 = matrix_fill(1, 1, 0)
  /\ v2 = vector_fill(1, 0)
  /\ x = NoRes
  /\ writes = 0
  /\ op = "init"
  /\ args = <<>>
  /\ res = NoRes

NextSolve ==
  \/ WriteCell(DOMAIN m, DOMAIN m[0])
  \/ WriteElem(DOMAIN v)
  \/ MakeRhs
  \/ Determinant
  \/ Solve

SpecSolve == InitSolve /\ [][NextSolve]_vars

(***************************************************************************)
(* Claims about determinant and solve.                                     *)
(***************************************************************************)
\* The receiver with column i, and only column i, replaced by b.
ColumnReplaced(A, i, b) ==
  [r \in DOMAIN A |-> [c \in DOMAIN A[r] |-> IF c = i THEN b[r] ELSE A[r][c]]]

\* The textbook formulas, on the cells of A.
Det2(A) == A[0][0] * A[1][1] - A[1][0] * A[0][1]
Det3(A) ==
  A[0][0] * A[1][1] * A[2][2] + A[0][1] * A[1][2] * A[2][0]
  + A[0][2] * A[1][0] * A[2][1] - A[0][2] * A[1][1] * A[2][0]
  - A[0][1] * A[1][0] * A[2][2] - A[0][0] * A[1][2] * A[2][1]
Det(A) == IF HEIGHT(A) = 2 THEN Det2(A) ELSE Det3(A)

\* The quotient of a / b in int arithmetic: the q nearest to zero side with
\* a = q * b + r, |r| < |b|, r of a's sign (or 0).
IsIntQuotient(q, a, b) ==
  LET r == a - q * b
  IN /\ Abs(r) < Abs(b)
     /\ (r = 0 \/ (r < 0) = (a < 0))

\* C1: for a 2x2 or 3x3 matrix A with determinant(A) != 0 and every b, each
\* component i of A.solve(b) is determinant(A_i) / determinant(A), A_i the
\* original A with column i, and only column i, replaced by b; the division
\* is applied to the determinant of A_i.
C1_SolveIsCramer ==
  (op = "solve" /\ Det(m) # 0) =>
    /\ res.st = "ok"
    /\ DOMAIN res.val = DOMAIN v
    /\ \A i \in DOMAIN v :
         IsIntQuotient(res.val[i], Det(ColumnReplaced(m, i, v)), Det(m))

\* A 3x3 system solved whose later components differ from what an unrestored
\* working copy gives, with a quotient that is not exact.
C1_Witness ==
  /\ op = "solve" /\ HEIGHT(m) = 3 /\ Det(m) # 0 /\ res.st = "ok"
  /\ \E i \in {1, 2} :
       /\ Det(ColumnReplaced(ColumnReplaced(m, i - 1, v), i, v))
            # Det(ColumnReplaced(m, i, v))
       /\ res.val[i] * Det(m) # Det(ColumnReplaced(m, i, v))
       /\ res.val[i] # 0

\* C2: for an integer 2x2 or 3x3 matrix A with determinant(A) != 0 and an
\* integer vector x, A.solve(b) == x for b = A * x; the system
\* |1 2 3; 3 1 -3; -3 4 7| x = (-5, 4, -7) gives x = (-1, 1, -2).
C2_SolveRoundTrip ==
  /\ (op = "solve" /\ x # NoRes /\ Det(m) # 0) => res = Ok(x.val)
  /\ (/\ op = "solve"
      /\ m = matrix_il(3, 3, <<1, 2, 3, 3, 1, -3, -3, 4, 7>>)
      /\ v = vector_il(3, <<-5, 4, -7>>))
     => res = Ok(vector_il(3, <<-1, 1, -2>>))

C2_Witness ==
  /\ op = "solve" /\ x # NoRes /\ Det(m) # 0 /\ HEIGHT(m) = 3
  /\ \A i \in DOMAIN x.val : x.val[i] # 0
  /\ res = Ok(x.val)

C2_WitnessLiteral ==
  /\ op = "solve"
  /\ m = matrix_il(3, 3, <<1, 2, 3, 3, 1, -3, -3, 4, 7>>)
  /\ v = vector_il(3, <<-5, 4, -7>>)
  /\ res = Ok(vector_il(3, <<-1, 1, -2>>))

\* C3: determinant() of a 2x2 matrix is a00*a11 - a10*a01 and of a 3x3 matrix
\* a00*a11*a22 + a01*a12*a20 + a02*a10*a21 - a02*a11*a20 - a01*a10*a22
\* - a00*a12*a21; |4 6; 3 8| gives 14 and |6 1 1; 4 -2 5; 2 8 7| gives -306.
C3_DeterminantFormula ==
  /\ (op = "determinant" /\ HEIGHT(m) = 2) => res = Ok(Det2(m))
  /\ (op = "determinant" /\ HEIGHT(m) = 3) => res = Ok(Det3(m))
  /\ (op = "determinant" /\ m = matrix_il(2, 2, <<4, 6, 3, 8>>)) => res = Ok(14)
  /\ (op = "determinant" /\ m = matrix_il(3, 3, <<6, 1, 1, 4, -2, 5, 2, 8, 7>>))
       => res = Ok(0 - 306)

\* A 3x3 determinant in which the last product, a00*a12*a21, is not zero.
C3_Witness ==
  /\ op = "determinant" /\ HEIGHT(m) = 3 /\ res.st = "ok" /\ res.val # 0
  /\ m[0][0] * m[1][2] * m[2][1] # 0
  /\ m[1][0] * m[0][1] # 0

(***************************************************************************)
(* SpecMul: the matrix product of an H x W and a W x R matrix.             *)
(***************************************************************************)
\* m * m2
Multiply ==
  /\ Running
  /\ WIDTH(m) = HEIGHT(m2)
  /\ op' = "multiply"
  /\ args' = <<>>
  /\ res' = Ok(multiply(m, m2))
  /\ UNCHANGED <<m, m2, m3, v, v2, x, writes>>

InitMul ==
  /\ \/ \E H \in Dims, W \in Dims, R \in Dims :
          \/ m = count_matrix(H, W) /\ m2 = count_matrix(W, R)
          \/ \E d \in Vals : m = matrix_fill(H, W, d) /\ m2 = count_matrix(W, R)
     \/ \E p \in TestProducts : m = p[1] /\ m2 = p[2]
  /\ m3 = matrix_fill(1, 1, 0)
  /\ v = vector_fill(1, 0)
  /\ v2 = vector_fill(1, 0)
  /\ x = NoRes
  /\ writes = 0
  /\ op = "init"
  /\ args = <<>>
  /\ res = NoRes

NextMul ==
  \/ WriteCell(DOMAIN m, DOMAIN m[0])
  \/ Multiply

SpecMul == InitMul /\ [][NextMul]_vars

\* The sum of A[i][k] * B[k][j] over the k below n.
RECURSIVE DotSum(_, _, _, _, _)
DotSum(A, B, i, j, n) ==
  IF n = 0 THEN 0 ELSE DotSum(A, B, i, j, n - 1) + A[i][n - 1] * B[n - 1][j]

\* C4: for an H x W matrix A and a W x R matrix B (H, W, R in 1..4), A * B is
\* an H x R matrix P with P[i][j] the sum over k in [0, W) of A[i][k] * B[k][j];
\* each cell's sum starts from 0 and carries nothing over from the cell
\* computed before it.
C4_ProductCells ==
  (op = "multiply") =>
    /\ res.st = "ok"
    /\ DOMAIN res.val = 0..(HEIGHT(m) - 1)
    /\ \A i \in DOMAIN res.val :
         /\ DOMAIN res.val[i] = 0..(WIDTH(m2) - 1)
         /\ \A j \in DOMAIN res.val[i] :
              res.val[i][j] = DotSum(m, m2, i, j, WIDTH(m))

\* A product of two non-square shapes, with more than one cell and more than
\* one term per cell, after a cell with a non-zero sum.
C4_Witness ==
  /\ op = "multiply" /\ res.st = "ok"
  /\ HEIGHT(m) = 4 /\ WIDTH(m) = 3 /\ WIDTH(m2) = 2
  /\ writes = 1
  /\ res.val[0][0] # 0 /\ res.val[3][1] # res.val[3][0]

(***************************************************************************)
(* SpecExtract: rows, columns and blocks of an H x W matrix.               *)
(***************************************************************************)
\* m.column_matrix(c)
ColumnMatrix ==
  /\ Running
  /\ \E c \in ColArgs(m) :
       /\ args' = <<c>>
       /\ res' = column_matrix(m, c)
  /\ op' = "column_matrix"
  /\ UNCHANGED <<m, m2, m3, v, v2, x, writes>>

\* m.column_vector(c)
ColumnVector ==
  /\ Running
  /\ \E c \in ColArgs(m) :
       /\ args' = <<c>>
       /\ res' = column_vector(m, c)
  /\ op' = "column_vector"
  /\ UNCHANGED <<m, m2, m3, v, v2, x, writes>>

\* m.row_matrix(r)
RowMatrix ==
  /\ Running
  /\ \E r \in RowArgs(m) :
       /\ args' = <<r>>
       /\ res' = row_matrix(m, r)
  /\ op' = "row_matrix"
  /\ UNCHANGED <<m, m2, m3, v, v2, x, writes>>

\* m.row_vector(r)
RowVector ==
  /\ Running
  /\ \E r \in RowArgs(m) :
       /\ args' = <<r>>
       /\ res' = row_vector(m, r)
  /\ op' = "row_vector"
  /\ UNCHANGED <<m, m2, m3, v, v2, x, writes>>

\* m.submatrix<RH, RW>(top, left); the static_asserts bound RH and RW.
Submatrix ==
  /\ Running
  /\ \E RH \in 1..HEIGHT(m), RW \in 1..WIDTH(m),
        top \in RowArgs(m), left \in ColArgs(m) :
       /\ args' = <<RH, RW, top, left>>
       /\ res' = submatrix(m, RH, RW, top, left)
  /\ op' = "submatrix"
  /\ UNCHANGED <<m, m2, m3, v, v2, x, writes>>

InitExtract ==
  /\ \E H \in Dims, W \in Dims :
       \/ m = count_matrix(H, W)
       \/ \E d \in Vals : m = matrix_fill(H, W, d)
  /\ m2 = matrix_fill(1, 1, 0)
  /\ m3 = matrix_fill(1, 1, 0)
  /\ v = vector_fill(1, 0)
  /\ v2 = vector_fill(1, 0)
  /\ x = NoRes
  /\ writes = 0
  /\ op = "init"
  /\ args = <<>>
  /\ res = NoRes

NextExtract ==
  \/ ColumnMatrix
  \/ ColumnVector
  \/ RowMatrix
  \/ RowVector
  \/ Submatrix

SpecExtract == InitExtract /\ [][NextExtract]_vars

\* C5 (as claimed): for an H x W matrix m and a column index c with
\* 0 <= c < W, c >= 1 included, m.column_matrix(c) returns, with no precondition
\* failure, an H x 1 matrix r with r[i][0] == m[i][c] for every row i.
C5_ColumnMatrixAnyColumn ==
  (op = "column_matrix" /\ 0 <= args[1] /\ args[1] < WIDTH(m)) =>
    /\ res.st = "ok"
    /\ \A i \in DOMAIN m : res.val[i][0] = m[i][args[1]]

\* C6 (as claimed): for an H x W matrix m and a row index r outside [0, H),
\* negative as well as r >= H, m.row_matrix(r) and m.row_vector(r) both end in
\* an assertion failure and return no value.
C6_RowOutOfRangeFails ==
  (op \in {"row_matrix", "row_vector"} /\ ~(0 <= args[1] /\ args[1] < HEIGHT(m)))
    => res.st = "assert"

\* The RH x RW block of m at (top, left).
Block(A, RH, RW, top, left) ==
  [i \in 0..(RH - 1) |-> [j \in 0..(RW - 1) |-> A[top + i][left + j]]]

\* C10: m.submatrix<RH,RW>(top, left), 0 < RH <= H and 0 < RW <= W, returns s
\* with s[i][j] == m[top + i][left + j] for every cell when 0 <= top,
\* top + RH <= H, 0 <= left and left + RW <= W; when the block does not fit
\* inside m the call ends in an assertion failure and returns no value.
C10_SubmatrixBlockOrFail ==
  (op = "submatrix") =>
    LET RH == args[1]
        RW == args[2]
        top == args[3]
        left == args[4]
    IN IF 0 <= top /\ top + RH <= HEIGHT(m) /\ 0 <= left /\ left + RW <= WIDTH(m)
       THEN res = Ok(Block(m, RH, RW, top, left))
       ELSE res.st = "assert"

\* A block away from the corner, of more than one row and column, with cells
\* that tell the positions apart.
C10_Witness ==
  /\ op = "submatrix" /\ res.st = "ok"
  /\ args[1] = 2 /\ args[2] = 3 /\ args[3] = 2 /\ args[4] = 1
  /\ res.val[0][0] # res.val[1][0] /\ res.val[0][0] # res.val[0][1]

\* A block that starts inside m and runs over its right edge.
C10_WitnessOverEdge ==
  /\ op = "submatrix" /\ res.st = "assert"
  /\ args[3] = 0 /\ args[4] >= 0 /\ args[4] < WIDTH(m)
  /\ args[4] + args[2] > WIDTH(m)

(***************************************************************************)
(* SpecVector: cross and subvector on vectors of dimension 1..4.           *)
(***************************************************************************)
\* v.cross(v2): v2 has v's type.
Cross ==
  /\ Running
  /\ dimension(v) = dimension(v2)
  /\ op' = "cross"
  /\ args' = <<>>
  /\ res' = cross(v, v2)
  /\ UNCHANGED <<m, m2, m3, v, v2, x, writes>>

\* v.subvector<R>(start); the static_assert bounds R.
Subvector ==
  /\ Running
  /\ \E R \in 1..dimension(v), start \in ElemArgs(v) :
       /\ args' = <<R, start>>
       /\ res' = subvector(v, R, start)
  /\ op' = "subvector"
  /\ UNCHANGED <<m, m2, m3, v, v2, x, writes>>

InitVector ==
  /\ \/ \E N \in Dims :
          /\ \/ v = big(N)
             \/ \E d \in Vals : v = vector_fill(N, d)
          /\ \/ v2 = big(N)
             \/ \E d \in Vals : v2 = vector_fill(N, d)
     \/ \E p \in TestCrosses : v = p[1] /\ v2 = p[2]
  /\ m = matrix_fill(1, 1, 0)
  /\ m2 = matrix_fill(1, 1, 0)
  /\ m3 = matrix_fill(1, 1, 0)
  /\ x = NoRes
  /\ writes = 0
  /\ op = "init"
  /\ args = <<>>
  /\ res = NoRes

NextVector ==
  \/ WriteElem(DOMAIN v)
  \/ Cross
  \/ Subvector

SpecVector == InitVector /\ [][NextVector]_vars

\* C7: for 3-element vectors a and b, a.cross(b) is
\* (a1*b2 - a2*b1, a2*b0 - a0*b2, a0*b1 - a1*b0).
C7_CrossFormula ==
  (op = "cross" /\ dimension(v) = 3) =>
    res = Ok(vector_il(3, << v[1] * v2[2] - v[2] * v2[1],
                             v[2] * v2[0] - v[0] * v2[2],
                             v[0] * v2[1] - v[1] * v2[0] >>))

C7_Witness ==
  /\ op = "cross" /\ dimension(v) = 3 /\ res.st = "ok"
  /\ res.val[0] # 0 /\ res.val[1] # 0 /\ res.val[2] # 0
  /\ writes = 1

\* C8 (as claimed): cross is rejected statically for every dimension N != 3:
\* it never runs on a vector with N = 1, 2 or 4, so it neither produces a
\* result nor fails an element-index assertion there.
C8_CrossOnlyDimension3 ==
  ~(op = "cross" /\ dimension(v) # 3 /\ res.st \in {"ok", "assert"})

\* C9: for a vector v of dimension N, 1 <= R <= N and an integer start,
\* v.subvector<R>(start) returns w with w[i] == v[start + i] for every i in
\* [0, R) when 0 <= start and start + R - 1 < N; in every other case, a
\* negative start with start + R - 1 a valid index included, the call ends in
\* an assertion failure and returns no value.
C9_SubvectorRangeOrFail ==
  (op = "subvector") =>
    LET R == args[1]
        start == args[2]
    IN IF 0 <= start /\ start + R - 1 < dimension(v)
       THEN res = Ok([i \in 0..(R - 1) |-> v[start + i]])
       ELSE res.st = "assert"

\* A negative start whose last index is valid.
C9_Witness ==
  /\ op = "subvector" /\ res.st = "assert"
  /\ args[2] < 0 /\ args[2] + args[1] - 1 >= 0

\* A subvector from the middle of v.
C9_WitnessInside ==
  /\ op = "subvector" /\ res.st = "ok"
  /\ args[1] = 2 /\ args[2] = 1 /\ dimension(v) = 4
  /\ res.val[0] # res.val[1] /\ res.val[0] # v[0]

(***************************************************************************)
(* almost_equal.  delta is a double; the model draws it from the positive  *)
(* fractions num/den with den a power of two, which a double holds         *)
(* exactly, so that with int elements rhs[i] + delta and rhs[i] - delta    *)
(* are exact and the comparison of the rounded quotient difference / rhs   *)
(* with delta has the outcome of the exact comparison.  A delta is the     *)
(* record [num, den].                                                      *)
(***************************************************************************)
\* The largest numerator of a delta.
MaxDeltaNum == 2

Deltas == {[num |-> n, den |-> d] : n \in 1..MaxDeltaNum, d \in {1, 2}}

\* gfx::almost_equal(lhs, rhs, delta): difference / rhs with rhs == 0 and
\* lhs != rhs is an infinity, which is not <= delta.
almost_equal(lhs, rhs, delta) ==
  IF ~(delta.num > 0) THEN AssertFail
  ELSE IF lhs = rhs THEN Ok(TRUE)
  ELSE IF rhs = 0 THEN Ok(FALSE)
  ELSE Ok(Abs(lhs - rhs) * delta.den <= delta.num * Abs(rhs))

within_margin_upper_only(lhs, rhs, delta) ==
  lhs * delta.den <= rhs * delta.den + delta.num

\* ((*this)[i] <= rhs[i] + delta) && ((*this)[i] >= rhs[i] - delta)
within_margin(lhs, rhs, delta) ==
  /\ lhs * delta.den <= rhs * delta.den + delta.num
  /\ lhs * delta.den >= rhs * delta.den - delta.num

\* for (i = 0; i < rhs.dimension(); i++) if (!within margin) return false;
RECURSIVE vector_almost_equal_loop(_, _, _, _)
vector_almost_equal_loop(this, rhs, delta, i) ==
  IF ~(i < dimension(rhs)) THEN TRUE
  ELSE IF ~within_margin(this[i], rhs[i], delta) THEN FALSE
  ELSE vector_almost_equal_loop(this, rhs, delta, i + 1)

\* vector::almost_equal(rhs, delta)
vector_almost_equal(this, rhs, delta) ==
  vector_almost_equal_loop(this, rhs, delta, 0)

\* for (i = 0; i < HEIGHT; ++i) if (!_rows[i].almost_equal(rhs[i], delta))
\* return false;
RECURSIVE matrix_almost_equal_loop(_, _, _, _)
matrix_almost_equal_loop(this, rhs, delta, i) ==
  IF ~(i < HEIGHT(this)) THEN TRUE
  ELSE IF ~vector_almost_equal(this[i], rhs[i], delta) THEN FALSE
  ELSE matrix_almost_equal_loop(this, rhs, delta, i + 1)

\* matrix::almost_equal(rhs, delta)
matrix_almost_equal(this, rhs, delta) ==
  matrix_almost_equal_loop(this, rhs, delta, 0)

(***************************************************************************)
(* SpecAlmost: v.almost_equal(v2, delta) and m.almost_equal(m2, delta).    *)
(***************************************************************************)
\* v.almost_equal(v2, delta)
VectorAlmostEqual ==
  /\ Running
  /\ dimension(v) = dimension(v2)
  /\ \E delta \in Deltas :
       /\ args' = <<delta.num, delta.den>>
       /\ res' = Ok(vector_almost_equal(v, v2, delta))
  /\ op' = "vector_almost_equal"
  /\ UNCHANGED <<m, m2, m3, v, v2, x, writes>>

\* m.almost_equal(m2, delta)
MatrixAlmostEqual ==
  /\ Running
  /\ HEIGHT(m) = HEIGHT(m2) /\ WIDTH(m) = WIDTH(m2)
  /\ \E delta \in Deltas :
       /\ args' = <<delta.num, delta.den>>
       /\ res' = Ok(matrix_almost_equal(m, m2, delta))
  /\ op' = "matrix_almost_equal"
  /\ UNCHANGED <<m, m2, m3, v, v2, x, writes>>

InitAlmost ==
  /\ \/ /\ \E N \in Dims :
             /\ v \in {big(N)} \cup {vector_fill(N, d) : d \in Vals}
             /\ v2 \in {big(N)} \cup {vector_fill(N, d) : d \in Vals}
        /\ m = matrix_fill(1, 1, 0)
        /\ m2 = matrix_fill(1, 1, 0)
     \/ /\ \E H \in Dims, W \in Dims :
             /\ m2 \in {count_matrix(H, W)} \cup
                       {matrix_fill(H, W, d) : d \in Vals}
             /\ m = m2
        /\ v = vector_fill(1, 0)
        /\ v2 = vector_fill(1, 0)
  /\ m3 = matrix_fill(1, 1, 0)
  /\ x = NoRes
  /\ writes = 0
  /\ op = "init"
  /\ args = <<>>
  /\ res = NoRes

NextAlmost ==
  \/ WriteCell(DOMAIN m, DOMAIN m[0])
  \/ WriteElem(DOMAIN v)
  \/ VectorAlmostEqual
  \/ MatrixAlmostEqual

SpecAlmost == InitAlmost /\ [][NextAlmost]_vars

\* The delta of the last almost_equal call.
CalledDelta == [num |-> args[1], den |-> args[2]]
\* |a - b| <= delta
AbsWithin(a, b, delta) ==
  (IF a >= b THEN a - b ELSE b - a) * delta.den <= delta.num

C11_WitnessRejected ==
  /\ op = "matrix_almost_equal"
  /\ writes > 0
  /\ \E i \in DOMAIN m : \E j \in DOMAIN m[i] :
       /\ m2[i][j] > MaxVal
       /\ \A k \in DOMAIN m : \A l \in DOMAIN m[k] :
            (k # i \/ l # j) => m[k][l] = m2[k][l]
  /\ res = Ok(FALSE)

\* C12: the member almost_equal is true exactly when the free function
\* gfx::almost_equal(this element, rhs element, delta) is true for every
\* element (lhs == rhs or |lhs - rhs| / |rhs| <= delta).
C12_AlmostEqualPerFreeFunction ==
  /\ op = "vector_almost_equal" =>
       res = Ok(\A i \in DOMAIN v :
                  almost_equal(v[i], v2[i], CalledDelta) = Ok(TRUE))
  /\ op = "matrix_almost_equal" =>
       res = Ok(\A i \in DOMAIN m : \A j \in DOMAIN m[i] :
                  almost_equal(m[i][j], m2[i][j], CalledDelta) = Ok(TRUE))

(***************************************************************************)
(* operator[]: reads, and SpecIndex, where the index of an access may lie  *)
(* outside the range.                                                      *)
(***************************************************************************)
vector_at_unchecked(this, i) ==
  IF i \in DOMAIN this THEN Ok(this[i]) ELSE Ok(0)

\* vector::operator[] (const): assert(is_index(i)); return _elements[i];
vector_at(this, i) ==
  IF ~is_index(i, dimension(this)) THEN AssertFail ELSE Ok(this[i])

\* matrix::operator[] (const): assert(is_row(row)); return _rows[row];
matrix_at(this, row) ==
  IF ~is_row(row, HEIGHT(this)) THEN AssertFail ELSE Ok(this[row])

\* v[i], read
ReadElem ==
  /\ Running
  /\ \E i \in ElemArgs(v) :
       /\ args' = <<i>>
       /\ res' = vector_at(v, i)
  /\ op' = "read_elem"
  /\ UNCHANGED <<m, m2, m3, v, v2, x, writes>>

\* m[r], read
ReadRow ==
  /\ Running
  /\ \E r \in RowArgs(m) :
       /\ args' = <<r>>
       /\ res' = matrix_at(m, r)
  /\ op' = "read_row"
  /\ UNCHANGED <<m, m2, m3, v, v2, x, writes>>

\* m2 and v2 are copies of m and v as constructed, never written.
InitIndex ==
  /\ \/ /\ \E N \in Dims :
             v \in {big(N)} \cup {vector_fill(N, d) : d \in Vals}
        /\ m = matrix_fill(1, 1, 0)
     \/ /\ \E H \in Dims, W \in Dims :
             m \in {count_matrix(H, W)} \cup
                   {matrix_fill(H, W, d) : d \in Vals}
        /\ v = vector_fill(1, 0)
  /\ m2 = m
  /\ m3 = matrix_fill(1, 1, 0)
  /\ v2 = v
  /\ x = NoRes
  /\ writes = 0
  /\ op = "init"
  /\ args = <<>>
  /\ res = NoRes

\* Reads with any index at any time, writes inside the range at any time,
\* and a first write with any index.
NextIndex ==
  \/ ReadElem
  \/ ReadRow
  \/ WriteElem(DOMAIN v)
  \/ WriteCell(DOMAIN m, DOMAIN m[0])
  \/ writes = 0 /\ WriteElem(ElemArgs(v))
  \/ writes = 0 /\ WriteCell(RowArgs(m), ColArgs(m))

SpecIndex == InitIndex /\ [][NextIndex]_vars

\* C13: the read v[i] and the write v[i] = x with i outside [0, N) end in
\* an assertion failure with no element of v changed, the row access m[r]
\* with r outside [0, H) ends in an assertion failure, and an access with
\* the index inside the range never fails.
C13_IndexChecked ==
  [][/\ op' = "read_elem" =>
          /\ v' = v
          /\ IF args'[1] \in 0..(dimension(v) - 1)
             THEN res' = Ok(v[args'[1]])
             ELSE res'.st = "assert"
     /\ op' = "write_elem" =>
          IF args'[1] \in 0..(dimension(v) - 1)
          THEN /\ res'.st # "assert"
               /\ v'[args'[1]] = args'[2]
          ELSE /\ res'.st = "assert"
               /\ v' = v
     /\ op' = "read_row" =>
          /\ m' = m
          /\ IF args'[1] \in 0..(HEIGHT(m) - 1)
             THEN res' = Ok(m[args'[1]])
             ELSE res'.st = "assert"
     /\ op' = "write_cell" =>
          /\ args'[1] \notin 0..(HEIGHT(m) - 1) =>
               res'.st = "assert" /\ m' = m
          /\ (args'[1] \in 0..(HEIGHT(m) - 1) /\
              args'[2] \in 0..(WIDTH(m) - 1)) => res'.st # "assert"
    ]_vars

\* A read below the range has failed.
C13_Witness ==
  /\ op = "read_elem"
  /\ args[1] < 0
  /\ res.st = "assert"

\* A write above the range has failed.
C13_WitnessWrite ==
  /\ op = "write_elem"
  /\ args[1] >= dimension(v)
  /\ res.st = "assert"

\* A row access above the range of a matrix wider than high has failed.
C13_WitnessRow ==
  /\ op = "read_row"
  /\ args[1] >= HEIGHT(m)
  /\ HEIGHT(m) < WIDTH(m)
  /\ res.st = "assert"

\* The cells of m that differ from the constructed matrix m2.
ChangedCells ==
  {rc \in (DOMAIN m) \X (DOMAIN m[0]) : m[rc[1]][rc[2]] # m2[rc[1]][rc[2]]}

vector_copy_default(init) == [i \in DOMAIN init |-> 0]

\* vector(const same_type& init) : _elements(init._elements), and
\* operator=: _elements = rhs._elements
vector_copy(init) == [i \in DOMAIN init |-> init[i]]

matrix_copy_default(rhs) ==
  [i \in DOMAIN rhs |-> [j \in DOMAIN rhs[i] |-> 0]]

\* matrix(const same_type& rhs) : _rows(rhs._rows), and
\* operator=: _rows = rhs._rows
matrix_copy(rhs) == [i \in DOMAIN rhs |-> vector_copy(rhs[i])]

\* auto v2(v)
CopyVector ==
  /\ Running
  /\ v2' = vector_copy(v)
  /\ op' = "copy_vector"
  /\ args' = <<>>
  /\ res' = NoRes
  /\ UNCHANGED <<m, m2, m3, v, x, writes>>

\* v2 = v, for v2 of v's type
AssignVector ==
  /\ Running
  /\ dimension(v2) = dimension(v)
  /\ v2' = vector_copy(v)
  /\ op' = "assign_vector"
  /\ args' = <<>>
  /\ res' = NoRes
  /\ UNCHANGED <<m, m2, m3, v, x, writes>>

\* auto m2 = m
CopyMatrix ==
  /\ Running
  /\ m2' = matrix_copy(m)
  /\ op' = "copy_matrix"
  /\ args' = <<>>
  /\ res' = NoRes
  /\ UNCHANGED <<m, m3, v, v2, x, writes>>

\* m2 = m, for m2 of m's type
AssignMatrix ==
  /\ Running
  /\ HEIGHT(m2) = HEIGHT(m) /\ WIDTH(m2) = WIDTH(m)
  /\ m2' = matrix_copy(m)
  /\ op' = "assign_matrix"
  /\ args' = <<>>
  /\ res' = NoRes
  /\ UNCHANGED <<m, m3, v, v2, x, writes>>

\* v2[i] = value with i inside the range
WriteElem2 ==
  /\ Running
  /\ writes < MaxWrites
  /\ \E i \in DOMAIN v2, value \in Vals :
       /\ args' = <<i, value>>
       /\ v2' = [v2 EXCEPT ![i] = value]
  /\ writes' = writes + 1
  /\ op' = "write_elem2"
  /\ res' = NoRes
  /\ UNCHANGED <<m, m2, m3, v, x>>

\* m2[r][c] = value with r and c inside the range
WriteCell2 ==
  /\ Running
  /\ writes < MaxWrites
  /\ \E r \in DOMAIN m2, c \in DOMAIN m2[0], value \in Vals :
       /\ args' = <<r, c, value>>
       /\ m2' = set_cell(m2, r, c, value)
  /\ writes' = writes + 1
  /\ op' = "write_cell2"
  /\ res' = NoRes
  /\ UNCHANGED <<m, m3, v, v2, x>>

\* v2.fill(value)
FillVector2 ==
  /\ Running
  /\ writes < MaxWrites
  /\ \E value \in Vals :
       /\ args' = <<value>>
       /\ v2' = vector_fill(dimension(v2), value)
  /\ writes' = writes + 1
  /\ op' = "fill_vector2"
  /\ res' = NoRes
  /\ UNCHANGED <<m, m2, m3, v, x>>

\* m2.fill(value)
FillMatrix2 ==
  /\ Running
  /\ writes < MaxWrites
  /\ \E value \in Vals :
       /\ args' = <<value>>
       /\ m2' = matrix_fill(HEIGHT(m2), WIDTH(m2), value)
  /\ writes' = writes + 1
  /\ op' = "fill_matrix2"
  /\ res' = NoRes
  /\ UNCHANGED <<m, m3, v, v2, x>>

InitCopy ==
  /\ \/ /\ \E N \in Dims :
             v \in {big(N)} \cup {vector_fill(N, d) : d \in Vals}
        /\ m = matrix_fill(1, 1, 0)
     \/ /\ \E H \in Dims, W \in Dims :
             m \in {count_matrix(H, W)} \cup
                   {matrix_fill(H, W, d) : d \in Vals}
        /\ v = vector_fill(1, 0)
  /\ m2 = matrix_fill(1, 1, 0)
  /\ m3 = matrix_fill(1, 1, 0)
  /\ v2 = vector_fill(1, 0)
  /\ x = NoRes
  /\ writes = 0
  /\ op = "init"
  /\ args = <<>>
  /\ res = NoRes

NextCopy ==
  \/ CopyVector
  \/ AssignVector
  \/ CopyMatrix
  \/ AssignMatrix
  \/ WriteElem(DOMAIN v)
  \/ WriteElem2
  \/ FillVector2
  \/ WriteCell(DOMAIN m, DOMAIN m[0])
  \/ WriteCell2
  \/ FillMatrix2

SpecCopy == InitCopy /\ [][NextCopy]_vars

\* C16: after copy construction or assignment b = a, b == a; a write to b
\* (b[i] = x, b[r][c] = x, b.fill(x)) leaves every element of a unchanged
\* and a write to a leaves b unchanged.
C16_CopyNeverAliases ==
  [][/\ op' \in {"copy_vector", "assign_vector"} => (v2' = v /\ v' = v)
     /\ op' \in {"copy_matrix", "assign_matrix"} => (m2' = m /\ m' = m)
     /\ op' \in {"write_elem2", "fill_vector2"} => v' = v
     /\ op' \in {"write_cell2", "fill_matrix2"} => m' = m
     /\ op' = "write_elem" => v2' = v2
     /\ op' = "write_cell" => m2' = m2
    ]_vars

\* A copy of a matrix with several cells was written to, and differs from
\* the matrix it was copied from.
C16_Witness ==
  /\ op = "write_cell2"
  /\ HEIGHT(m) > 1 /\ WIDTH(m) > 1
  /\ HEIGHT(m2) = HEIGHT(m) /\ WIDTH(m2) = WIDTH(m)
  /\ m = count_matrix(HEIGHT(m), WIDTH(m))
  /\ m2 # m

\* A vector was written to after it was copied, and the copy kept the value.
C16_WitnessSource ==
  /\ op = "write_elem"
  /\ dimension(v) > 1
  /\ dimension(v2) = dimension(v)
  /\ v2 = big(dimension(v))
  /\ v # v2

(***************************************************************************)
(* vector::shrink and vector::grow.  RESULT_DIMENSION is a template        *)
(* parameter: the static_asserts leave only RESULT_DIMENSION < DIMENSION   *)
(* for shrink and RESULT_DIMENSION > DIMENSION for grow, so every index    *)
(* of the loops is inside both vectors.                                    *)
(***************************************************************************)
\* for (i = 0; i < RESULT_DIMENSION; i++) lower[i] = (*this)[i];
RECURSIVE shrink_loop(_, _, _, _)
shrink_loop(this, RESULT_DIMENSION, i, lower) ==
  IF ~(i < RESULT_DIMENSION) THEN lower
  ELSE shrink_loop(this, RESULT_DIMENSION, i + 1,
                   [lower EXCEPT ![i] = this[i]])

\* vector::shrink<RESULT_DIMENSION>()
shrink(this, RESULT_DIMENSION) ==
  shrink_loop(this, RESULT_DIMENSION, 0, vector_fill(RESULT_DIMENSION, 0))

grow_init_zero(RESULT_DIMENSION, default_value) ==
  vector_fill(RESULT_DIMENSION, 0)

\* gfx::vector<scalar_type, RESULT_DIMENSION> higher(default_value);
grow_init(RESULT_DIMENSION, default_value) ==
  vector_fill(RESULT_DIMENSION, default_value)

\* for (i = 0; i < (*this).dimension(); i++) higher[i] = (*this)[i];
RECURSIVE grow_loop(_, _, _)
grow_loop(this, i, higher) ==
  IF ~(i < dimension(this)) THEN higher
  ELSE grow_loop(this, i + 1, [higher EXCEPT ![i] = this[i]])

\* vector::grow<RESULT_DIMENSION>(default_value)
grow(this, RESULT_DIMENSION, default_value) ==
  grow_loop(this, 0, grow_init(RESULT_DIMENSION, default_value))

(***************************************************************************)
(* SpecGrow: shrink, grow, and grow followed by shrink.                    *)
(***************************************************************************)
\* The dimensions a vector is grown to: the test grows to one more than
\* MaxDim.
GrowDims == 2..(MaxDim + 1)

\* v.shrink<R>()
Shrink ==
  /\ Running
  /\ \E R \in Dims :
       /\ R < dimension(v)
       /\ args' = <<R>>
       /\ res' = Ok(shrink(v, R))
  /\ op' = "shrink"
  /\ UNCHANGED <<m, m2, m3, v, v2, x, writes>>

\* v.grow<R>(d)
Grow ==
  /\ Running
  /\ \E R \in GrowDims, d \in Vals :
       /\ R > dimension(v)
       /\ args' = <<R, d>>
       /\ res' = Ok(grow(v, R, d))
  /\ op' = "grow"
  /\ UNCHANGED <<m, m2, m3, v, v2, x, writes>>

\* v.grow<R>(d).shrink<S>()
GrowShrink ==
  /\ Running
  /\ \E R \in GrowDims, d \in Vals, S \in Dims :
       /\ R > dimension(v)
       /\ S < R
       /\ args' = <<R, d, S>>
       /\ res' = Ok(shrink(grow(v, R, d), S))
  /\ op' = "grow_shrink"
  /\ UNCHANGED <<m, m2, m3, v, v2, x, writes>>

InitGrow ==
  /\ \E N \in Dims : v \in {big(N)} \cup {vector_fill(N, d) : d \in Vals}
  /\ v2 = vector_fill(1, 0)
  /\ m = matrix_fill(1, 1, 0)
  /\ m2 = matrix_fill(1, 1, 0)
  /\ m3 = matrix_fill(1, 1, 0)
  /\ x = NoRes
  /\ writes = 0
  /\ op = "init"
  /\ args = <<>>
  /\ res = NoRes

NextGrow ==
  \/ WriteElem(DOMAIN v)
  \/ Shrink
  \/ Grow
  \/ GrowShrink

SpecGrow == InitGrow /\ [][NextGrow]_vars

\* C17: v.grow<R>(d), R > N, is an R-element vector whose first N elements
\* equal v's and whose remaining elements equal d, and
\* v.grow<R>(d).shrink<N>() == v.
C17_GrowThenShrink ==
  /\ op = "grow" =>
       /\ res.st = "ok"
       /\ DOMAIN res.val = 0..(args[1] - 1)
       /\ \A i \in 0..(args[1] - 1) :
            res.val[i] = IF i < dimension(v) THEN v[i] ELSE args[2]
  /\ (op = "grow_shrink" /\ args[3] = dimension(v)) => res = Ok(v)

\* A vector of several unequal elements was grown with a default value other
\* than 0 and shrunk back.
C17_Witness ==
  /\ op = "grow_shrink"
  /\ args[3] = dimension(v)
  /\ args[2] # 0
  /\ dimension(v) > 1
  /\ v[0] # v[1]

C17_WitnessGrow ==
  /\ op = "grow"
  /\ args[1] > dimension(v) + 1
  /\ args[2] # 0
  /\ dimension(v) > 1
  /\ writes > 0

(***************************************************************************)
(* matrix::identity and matrix::transpose.                                 *)
(***************************************************************************)
identity_diagonal_always(i, j) == TRUE

\* if (i == j)
identity_diagonal(i, j) == i = j

\* for (i < HEIGHT) for (j < WIDTH) if (i == j) ident[i][j] = 1;
RECURSIVE identity_loop(_, _, _, _, _)
identity_loop(H, W, i, j, ident) ==
  IF ~(i < H) THEN ident
  ELSE IF ~(j < W) THEN identity_loop(H, W, i + 1, 0, ident)
  ELSE identity_loop(H, W, i, j + 1,
                     IF identity_diagonal(i, j)
                     THEN set_cell(ident, i, j, 1)
                     ELSE ident)

\* matrix<scalar_type, H, W>::identity(), H == W by the static_assert:
\* same_type ident(0), then the loop.
identity(H, W) == identity_loop(H, W, 0, 0, matrix_fill(H, W, 0))

transpose_put_off_diagonal(transpose, i, j, value) ==
  IF i = j THEN transpose ELSE set_cell(transpose, j, i, value)

\* transpose[j][i] = value
transpose_put(transpose, i, j, value) == set_cell(transpose, j, i, value)

\* for (i < HEIGHT) for (j < WIDTH) transpose[j][i] = (*this)[i][j];
RECURSIVE transpose_loop(_, _, _, _)
transpose_loop(this, i, j, transpose) ==
  IF ~(i < HEIGHT(this)) THEN transpose
  ELSE IF ~(j < WIDTH(this)) THEN transpose_loop(this, i + 1, 0, transpose)
  ELSE transpose_loop(this, i, j + 1,
                      transpose_put(transpose, i, j, this[i][j]))

\* matrix::transpose(): the result is a default-constructed W x H matrix.
transpose(this) ==
  transpose_loop(this, 0, 0, matrix_fill(WIDTH(this), HEIGHT(this), 0))

(***************************************************************************)
(* SpecShape: identity, the product with it, and transposes.               *)
(***************************************************************************)
\* decltype(m)::identity(), m square
Identity ==
  /\ Running
  /\ is_square(m)
  /\ op' = "identity"
  /\ args' = <<>>
  /\ res' = Ok(identity(HEIGHT(m), WIDTH(m)))
  /\ UNCHANGED <<m, m2, m3, v, v2, x, writes>>

\* m * decltype(m)::identity(), m square
TimesIdentity ==
  /\ Running
  /\ is_square(m)
  /\ op' = "times_identity"
  /\ args' = <<>>
  /\ res' = Ok(multiply(m, identity(HEIGHT(m), WIDTH(m))))
  /\ UNCHANGED <<m, m2, m3, v, v2, x, writes>>

\* m.transpose()
Transpose ==
  /\ Running
  /\ op' = "transpose"
  /\ args' = <<>>
  /\ res' = Ok(transpose(m))
  /\ UNCHANGED <<m, m2, m3, v, v2, x, writes>>

\* m.transpose().transpose()
TransposeTranspose ==
  /\ Running
  /\ op' = "transpose_transpose"
  /\ args' = <<>>
  /\ res' = Ok(transpose(transpose(m)))
  /\ UNCHANGED <<m, m2, m3, v, v2, x, writes>>

InitShape ==
  /\ \E H \in Dims, W \in Dims :
       m \in {count_matrix(H, W)} \cup {matrix_fill(H, W, d) : d \in Vals}
  /\ m2 = matrix_fill(1, 1, 0)
  /\ m3 = matrix_fill(1, 1, 0)
  /\ v = vector_fill(1, 0)
  /\ v2 = vector_fill(1, 0)
  /\ x = NoRes
  /\ writes = 0
  /\ op = "init"
  /\ args = <<>>
  /\ res = NoRes

NextShape ==
  \/ WriteCell(DOMAIN m, DOMAIN m[0])
  \/ Identity
  \/ TimesIdentity
  \/ Transpose
  \/ TransposeTranspose

SpecShape == InitShape /\ [][NextShape]_vars

\* C18: for a square n x n matrix A, n in 1..4, A * identity() == A, and
\* identity() has 1 on the main diagonal and 0 in every other cell.
C18_TimesIdentity ==
  /\ op = "identity" =>
       /\ res.st = "ok"
       /\ DOMAIN res.val = DOMAIN m
       /\ \A i \in DOMAIN m :
            /\ DOMAIN res.val[i] = DOMAIN m[i]
            /\ \A j \in DOMAIN m[i] :
                 res.val[i][j] = IF i = j THEN 1 ELSE 0
  /\ op = "times_identity" => res = Ok(m)

\* A 4 x 4 matrix of unequal cells, one of them written, was multiplied by
\* the identity.
C18_Witness ==
  /\ op = "times_identity"
  /\ HEIGHT(m) = MaxDim
  /\ writes > 0
  /\ m[0][1] # m[1][0]

\* C19: A.transpose().transpose() == A, and the transpose of an H x W matrix
\* is the W x H matrix T with T[j][i] == A[i][j].
C19_TransposeTwice ==
  /\ op = "transpose" =>
       /\ res.st = "ok"
       /\ DOMAIN res.val = 0..(WIDTH(m) - 1)
       /\ \A j \in 0..(WIDTH(m) - 1) :
            /\ DOMAIN res.val[j] = 0..(HEIGHT(m) - 1)
            /\ \A i \in 0..(HEIGHT(m) - 1) : res.val[j][i] = m[i][j]
  /\ op = "transpose_transpose" => res = Ok(m)

\* A square matrix that is not symmetric was transposed twice.
C19_Witness ==
  /\ op = "transpose_transpose"
  /\ is_square(m)
  /\ HEIGHT(m) > 2
  /\ m[0][1] # m[1][0]
  /\ m[2][2] # 0

\* A matrix that is not square was transposed.
C19_WitnessRectangular ==
  /\ op = "transpose"
  /\ HEIGHT(m) > WIDTH(m)
  /\ WIDTH(m) > 1
  /\ m[0][1] # m[1][0]

(***************************************************************************)
(* SpecAssoc: the two products of three matrices, m an H x W, m2 a W x R   *)
(* and m3 an R x S matrix.                                                 *)
(***************************************************************************)
\* (m * m2) * m3 and m * (m2 * m3)
ProductsOfThree ==
  /\ Running
  /\ WIDTH(m) = HEIGHT(m2)
  /\ WIDTH(m2) = HEIGHT(m3)
  /\ op' = "products_of_three"
  /\ args' = <<>>
  /\ res' = Ok([left |-> multiply(multiply(m, m2), m3),
                right |-> multiply(m, multiply(m2, m3))])
  /\ UNCHANGED <<m, m2, m3, v, v2, x, writes>>

InitAssoc ==
  /\ \E H \in Dims, W \in Dims, R \in Dims, S \in Dims :
       /\ m \in {count_matrix(H, W)} \cup {matrix_fill(H, W, d) : d \in Vals}
       /\ m2 \in {count_matrix(W, R)} \cup {matrix_fill(W, R, d) : d \in Vals}
       /\ m3 \in {count_matrix(R, S)} \cup {matrix_fill(R, S, d) : d \in Vals}
  /\ v = vector_fill(1, 0)
  /\ v2 = vector_fill(1, 0)
  /\ x = NoRes
  /\ writes = 0
  /\ op = "init"
  /\ args = <<>>
  /\ res = NoRes

NextAssoc == ProductsOfThree

SpecAssoc == InitAssoc /\ [][NextAssoc]_vars

\* C20: for an H x W matrix A, a W x R matrix B and an R x S matrix C of
\* int elements whose products do not overflow, (A * B) * C == A * (B * C).
C20_ProductAssociative ==
  op = "products_of_three" =>
    /\ res.st = "ok"
    /\ res.val.left = res.val.right

\* Three matrices that are not square, a count matrix between two filled
\* ones, were multiplied, and the product is not zero.
C20_Witness ==
  /\ op = "products_of_three"
  /\ m2 = count_matrix(HEIGHT(m2), WIDTH(m2))
  /\ m # count_matrix(HEIGHT(m), WIDTH(m))
  /\ HEIGHT(m) # WIDTH(m)
  /\ HEIGHT(m2) # WIDTH(m2)
  /\ HEIGHT(m3) # WIDTH(m3)
  /\ WIDTH(m3) > 1
  /\ res.val.left[0][1] # 0

(***************************************************************************)
(* Elementwise arithmetic.  Each operator copies its receiver into a       *)
(* local, then                                                             *)
(* assigns every element of the local; scalar_type = int, so / truncates   *)
(* and a division by zero is undefined: the call traps or returns some     *)
(* value, of which the model keeps the all-zero one.                       *)
(***************************************************************************)
\* vector::operator+(const same_type&)
vector_add(this, rhs) == [i \in DOMAIN this |-> this[i] + rhs[i]]
\* vector::operator-(const same_type&)
vector_subtract(this, rhs) == [i \in DOMAIN this |-> this[i] - rhs[i]]
vector_negate_from_second(this) ==
  [i \in DOMAIN this |-> IF i = 0 THEN this[i] ELSE 0 - this[i]]

\* vector::operator-()
vector_negate(this) == [i \in DOMAIN this |-> 0 - this[i]]
\* vector::operator*(scalar_type)
vector_scale(this, rhs) == [i \in DOMAIN this |-> rhs * this[i]]

\* dot += (*this)[i] * rhs[i], for i from i0
RECURSIVE vector_dot_loop(_, _, _, _)
vector_dot_loop(this, rhs, i, dot) ==
  IF ~(i < dimension(this)) THEN dot
  ELSE vector_dot_loop(this, rhs, i + 1, dot + (this[i] * rhs[i]))

\* vector::operator*(const same_type&)
vector_dot(this, rhs) == vector_dot_loop(this, rhs, 0, 0)

\* vector::operator/(scalar_type)
vector_divide(this, rhs) ==
  IF rhs = 0
  THEN {DivTrap, Ok(vector_fill(dimension(this), 0))}
  ELSE {Ok([i \in DOMAIN this |-> int_div(this[i], rhs)])}

\* mag = sqrt(mag) with mag an int: the square root, truncated.
int_sqrt(n) == CHOOSE r \in 0..n : r * r <= n /\ (r + 1) * (r + 1) > n

\* vector::normalize(): every element divided by the truncated magnitude.
normalize(this) ==
  vector_divide(this, int_sqrt(vector_dot(this, this)))

\* matrix::operator+(const same_type&)
matrix_add(this, rhs) == [i \in DOMAIN this |-> vector_add(this[i], rhs[i])]
\* matrix::operator-(const same_type&)
matrix_subtract(this, rhs) ==
  [i \in DOMAIN this |-> vector_subtract(this[i], rhs[i])]
\* matrix::operator-()
matrix_negate(this) == [i \in DOMAIN this |-> vector_negate(this[i])]
\* matrix::operator*(scalar_type)
matrix_scale(this, rhs) ==
  [i \in DOMAIN this |-> [j \in DOMAIN this[i] |-> this[i][j] * rhs]]
\* matrix::operator/(scalar_type)
matrix_divide(this, rhs) ==
  IF rhs = 0
  THEN {DivTrap, Ok(matrix_fill(HEIGHT(this), WIDTH(this), 0))}
  ELSE {Ok([i \in DOMAIN this |->
             [j \in DOMAIN this[i] |-> int_div(this[i][j], rhs)]])}

(***************************************************************************)
(* SpecFrame: every member function that returns a new object, called on   *)
(* m, m2, v and v2.  All of them are const member functions with const     *)
(* reference arguments, except grow, which is not const but only reads     *)
(* the elements of its receiver.                                           *)
(***************************************************************************)
\* v + v2
VectorAdd ==
  /\ Running
  /\ dimension(v) = dimension(v2)
  /\ op' = "vector_add"
  /\ args' = <<>>
  /\ res' = Ok(vector_add(v, v2))
  /\ UNCHANGED <<m, m2, m3, v, v2, x, writes>>

\* v - v2
VectorSubtract ==
  /\ Running
  /\ dimension(v) = dimension(v2)
  /\ op' = "vector_subtract"
  /\ args' = <<>>
  /\ res' = Ok(vector_subtract(v, v2))
  /\ UNCHANGED <<m, m2, m3, v, v2, x, writes>>

\* -v
VectorNegate ==
  /\ Running
  /\ op' = "vector_negate"
  /\ args' = <<>>
  /\ res' = Ok(vector_negate(v))
  /\ UNCHANGED <<m, m2, m3, v, v2, x, writes>>

\* v * s
VectorScale ==
  /\ Running
  /\ \E s \in Vals :
       /\ args' = <<s>>
       /\ res' = Ok(vector_scale(v, s))
  /\ op' = "vector_scale"
  /\ UNCHANGED <<m, m2, m3, v, v2, x, writes>>

\* v * v2
VectorDot ==
  /\ Running
  /\ dimension(v) = dimension(v2)
  /\ op' = "vector_dot"
  /\ args' = <<>>
  /\ res' = Ok(vector_dot(v, v2))
  /\ UNCHANGED <<m, m2, m3, v, v2, x, writes>>

\* v / s
VectorDivide ==
  /\ Running
  /\ \E s \in Vals :
       /\ args' = <<s>>
       /\ res' \in vector_divide(v, s)
  /\ op' = "vector_divide"
  /\ UNCHANGED <<m, m2, m3, v, v2, x, writes>>

\* v.normalize()
Normalize ==
  /\ Running
  /\ op' = "normalize"
  /\ args' = <<>>
  /\ res' \in normalize(v)
  /\ UNCHANGED <<m, m2, m3, v, v2, x, writes>>

\* m + m2
MatrixAdd ==
  /\ Running
  /\ HEIGHT(m) = HEIGHT(m2) /\ WIDTH(m) = WIDTH(m2)
  /\ op' = "matrix_add"
  /\ args' = <<>>
  /\ res' = Ok(matrix_add(m, m2))
  /\ UNCHANGED <<m, m2, m3, v, v2, x, writes>>

\* m - m2
MatrixSubtract ==
  /\ Running
  /\ HEIGHT(m) = HEIGHT(m2) /\ WIDTH(m) = WIDTH(m2)
  /\ op' = "matrix_subtract"
  /\ args' = <<>>
  /\ res' = Ok(matrix_subtract(m, m2))
  /\ UNCHANGED <<m, m2, m3, v, v2, x, writes>>

\* -m
MatrixNegate ==
  /\ Running
  /\ op' = "matrix_negate"
  /\ args' = <<>>
  /\ res' = Ok(matrix_negate(m))
  /\ UNCHANGED <<m, m2, m3, v, v2, x, writes>>

\* m * s
MatrixScale ==
  /\ Running
  /\ \E s \in Vals :
       /\ args' = <<s>>
       /\ res' = Ok(matrix_scale(m, s))
  /\ op' = "matrix_scale"
  /\ UNCHANGED <<m, m2, m3, v, v2, x, writes>>

\* m / s
MatrixDivide ==
  /\ Running
  /\ \E s \in Vals :
       /\ args' = <<s>>
       /\ res' \in matrix_divide(m, s)
  /\ op' = "matrix_divide"
  /\ UNCHANGED <<m, m2, m3, v, v2, x, writes>>

InitFrame ==
  /\ \/ \E H \in Dims, W \in Dims :
          /\ m \in {count_matrix(H, W)} \cup
                    {matrix_fill(H, W, d) : d \in Vals}
          /\ v \in {big(H)} \cup {vector_fill(H, d) : d \in Vals}
     \/ \E s \in TestSystems2 \cup TestSystems3 : m = s[1] /\ v = s[2]
  /\ m2 = count_matrix(WIDTH(m), HEIGHT(m))
  /\ v2 = big(HEIGHT(m))
  /\ m3 = matrix_fill(1, 1, 0)
  /\ x = NoRes
  /\ writes = 0
  /\ op = "init"
  /\ args = <<>>
  /\ res = NoRes

NextFrame ==
  \/ VectorAdd
  \/ VectorSubtract
  \/ VectorNegate
  \/ VectorScale
  \/ VectorDivide
  \/ VectorDot
  \/ Cross
  \/ Normalize
  \/ Subvector
  \/ Shrink
  \/ Grow
  \/ MatrixAdd
  \/ MatrixSubtract
  \/ MatrixNegate
  \/ MatrixScale
  \/ MatrixDivide
  \/ Multiply
  \/ Submatrix
  \/ Transpose
  \/ ColumnMatrix
  \/ ColumnVector
  \/ RowMatrix
  \/ RowVector
  \/ Identity
  \/ Determinant
  \/ Solve

SpecFrame == InitFrame /\ [][NextFrame]_vars

\* The calls that return a new vector, matrix or scalar.
ReturningOps ==
  {"vector_add", "vector_subtract", "vector_negate", "vector_scale",
   "vector_divide", "vector_dot", "cross", "normalize", "subvector",
   "shrink", "grow", "matrix_add", "matrix_subtract", "matrix_negate",
   "matrix_scale", "matrix_divide", "multiply", "submatrix", "transpose",
   "column_matrix", "column_vector", "row_matrix", "row_vector", "identity",
   "determinant", "solve"}

C15_WitnessGrow ==
  /\ op = "grow"
  /\ dimension(v) > 1
  /\ args[2] # 0
  /\ res.st = "ok"

(***************************************************************************)
(* SpecAnti: the cross products of two 3-element vectors in both orders.   *)
(***************************************************************************)
\* v.cross(v2) and -(v2.cross(v)), v and v2 of dimension 3
CrossBothWays ==
  /\ Running
  /\ dimension(v) = 3 /\ dimension(v2) = 3
  /\ op' = "cross_both_ways"
  /\ args' = <<>>
  /\ res' = Ok([ab |-> cross(v, v2).val,
                negated_ba |-> vector_negate(cross(v2, v).val)])
  /\ UNCHANGED <<m, m2, m3, v, v2, x, writes>>

InitAnti ==
  /\ \/ /\ v \in {big(3)} \cup {vector_fill(3, d) : d \in Vals}
        /\ v2 \in {big(3)} \cup {vector_fill(3, d) : d \in Vals}
     \/ \E p \in TestCrosses : v = p[1] /\ v2 = p[2]
  /\ m = matrix_fill(1, 1, 0)
  /\ m2 = matrix_fill(1, 1, 0)
  /\ m3 = matrix_fill(1, 1, 0)
  /\ x = NoRes
  /\ writes = 0
  /\ op = "init"
  /\ args = <<>>
  /\ res = NoRes

NextAnti ==
  \/ WriteElem(DOMAIN v)
  \/ WriteElem2
  \/ CrossBothWays

SpecAnti == InitAnti /\ [][NextAnti]_vars

\* C21: for 3-element int vectors a and b, a.cross(b) == -(b.cross(a)).
C21_CrossAntiCommutative ==
  op = "cross_both_ways" =>
    /\ res.st = "ok"
    /\ res.val.ab = res.val.negated_ba

\* Two vectors that are not parallel, one with a written element, were
\* crossed: no element of the product is zero.
C21_Witness ==
  /\ op = "cross_both_ways"
  /\ writes > 0
  /\ \A i \in 0..2 : res.val.ab[i] # 0

(***************************************************************************)
(* SpecList: construction from an initializer list.                        *)
(***************************************************************************)
\* The length of the longest list of arbitrary values; a counting list holds
\* up to this many values more than the largest matrix has cells.
MaxListLen == 3

\* The lists {1, 2, ..., L}, as in count_matrix({1, ..., 9}), and every list
\* of at most MaxListLen values.
Lists ==
  {[k \in 1..L |-> k] : L \in 0..(MaxDim * MaxDim + MaxListLen)} \cup
  UNION {[1..L -> Vals] : L \in 0..MaxListLen}

\* gfx::vector<int, N>(il)
ConstructVector ==
  /\ Running
  /\ \E N \in Dims, il \in Lists :
       /\ args' = <<N>> \o il
       /\ res' = Ok(vector_il(N, il))
  /\ op' = "vector_il"
  /\ UNCHANGED <<m, m2, m3, v, v2, x, writes>>

\* gfx::matrix<int, H, W>(il)
ConstructMatrix ==
  /\ Running
  /\ \E H \in Dims, W \in Dims, il \in Lists :
       /\ args' = <<H, W>> \o il
       /\ res' = Ok(matrix_il(H, W, il))
  /\ op' = "matrix_il"
  /\ UNCHANGED <<m, m2, m3, v, v2, x, writes>>

InitList ==
  /\ m = matrix_fill(1, 1, 0)
  /\ m2 = matrix_fill(1, 1, 0)
  /\ m3 = matrix_fill(1, 1, 0)
  /\ v = vector_fill(1, 0)
  /\ v2 = vector_fill(1, 0)
  /\ x = NoRes
  /\ writes = 0
  /\ op = "init"
  /\ args = <<>>
  /\ res = NoRes

NextList ==
  \/ ConstructVector
  \/ ConstructMatrix

SpecList == InitList /\ [][NextList]_vars

\* Position k (from 0) of the list, 0 past its end.
ListAt(list, k) == IF k < Len(list) THEN list[k + 1] ELSE 0

\* C22: construction from a list of length L never fails; element k of the
\* vector is list[k] when k < L and 0 otherwise, values at positions >= N
\* are ignored; cell [i][j] of an H x W matrix follows the same rule at the
\* row-major position k = i * W + j.
C22_ListConstruction ==
  /\ op = "vector_il" =>
       LET N == args[1]
           list == SubSeq(args, 2, Len(args))
       IN /\ res.st = "ok"
          /\ DOMAIN res.val = 0..(N - 1)
          /\ \A k \in 0..(N - 1) : res.val[k] = ListAt(list, k)
  /\ op = "matrix_il" =>
       LET H == args[1]
           W == args[2]
           list == SubSeq(args, 3, Len(args))
       IN /\ res.st = "ok"
          /\ DOMAIN res.val = 0..(H - 1)
          /\ \A i \in 0..(H - 1) :
               /\ DOMAIN res.val[i] = 0..(W - 1)
               /\ \A j \in 0..(W - 1) :
                    res.val[i][j] = ListAt(list, (i * W) + j)

\* A matrix of several rows was built from a list that ends inside its
\* second row.
C22_Witness ==
  /\ op = "matrix_il"
  /\ args[1] > 2 /\ args[2] > 1
  /\ Len(args) - 2 > args[2]
  /\ Len(args) - 2 < 2 * args[2]
  /\ args[Len(args)] # 0

\* A vector was built from a list longer than its dimension.
C22_WitnessTruncated ==
  /\ op = "vector_il"
  /\ Len(args) - 1 > args[1]
  /\ args[1] > 1
  /\ args[Len(args)] # 0

(***************************************************************************)
(* matrix::grow.  RESULT_HEIGHT and RESULT_WIDTH are template parameters:  *)
(* the static_asserts leave RESULT_HEIGHT >= HEIGHT, RESULT_WIDTH >= WIDTH *)
(* and one of them strictly greater, so every cell the loops write exists. *)
(***************************************************************************)
matrix_grow_init_zero(RESULT_HEIGHT, RESULT_WIDTH, default_value) ==
  matrix_fill(RESULT_HEIGHT, RESULT_WIDTH, 0)

\* gfx::matrix<scalar_type, RESULT_HEIGHT, RESULT_WIDTH> growth(default_value);
matrix_grow_init(RESULT_HEIGHT, RESULT_WIDTH, default_value) ==
  matrix_fill(RESULT_HEIGHT, RESULT_WIDTH, default_value)

\* for (i < HEIGHT) for (j < WIDTH) growth[i][j] = (*this)[i][j];
RECURSIVE matrix_grow_loop(_, _, _, _)
matrix_grow_loop(this, i, j, growth) ==
  IF ~(i < HEIGHT(this)) THEN growth
  ELSE IF ~(j < WIDTH(this)) THEN matrix_grow_loop(this, i + 1, 0, growth)
  ELSE matrix_grow_loop(this, i, j + 1, set_cell(growth, i, j, this[i][j]))

\* matrix::grow<RESULT_HEIGHT, RESULT_WIDTH>(default_value)
matrix_grow(this, RESULT_HEIGHT, RESULT_WIDTH, default_value) ==
  matrix_grow_loop(this, 0, 0,
                   matrix_grow_init(RESULT_HEIGHT, RESULT_WIDTH, default_value))

(***************************************************************************)
(* SpecMatrixGrow                                                          *)
(***************************************************************************)
\* The heights and widths a matrix is grown to: up to one more than MaxDim.
\* m.grow<RH, RW>(d)
MatrixGrow ==
  /\ Running
  /\ \E RH \in (1..(MaxDim + 1)), RW \in (1..(MaxDim + 1)), d \in Vals :
       /\ RH >= HEIGHT(m)
       /\ RW >= WIDTH(m)
       /\ (RH > HEIGHT(m)) \/ (RW > WIDTH(m))
       /\ args' = <<RH, RW, d>>
       /\ res' = Ok(matrix_grow(m, RH, RW, d))
  /\ op' = "matrix_grow"
  /\ UNCHANGED <<m, m2, m3, v, v2, x, writes>>

InitMatrixGrow ==
  /\ \E H \in Dims, W \in Dims : m = count_matrix(H, W)
  /\ m2 = matrix_fill(1, 1, 0)
  /\ m3 = matrix_fill(1, 1, 0)
  /\ v = vector_fill(1, 0)
  /\ v2 = vector_fill(1, 0)
  /\ x = NoRes
  /\ writes = 0
  /\ op = "init"
  /\ args = <<>>
  /\ res = NoRes

NextMatrixGrow ==
  \/ WriteCell(DOMAIN m, DOMAIN m[0])
  \/ MatrixGrow

SpecMatrixGrow == InitMatrixGrow /\ [][NextMatrixGrow]_vars

\* C23: m.grow<RH, RW>(d), RH >= H, RW >= W, one of them strictly greater,
\* is an RH x RW matrix g with g[i][j] == m[i][j] for i < H and j < W and
\* g[i][j] == d for every other cell.
C23_MatrixGrow ==
  op = "matrix_grow" =>
    /\ res.st = "ok"
    /\ DOMAIN res.val = 0..(args[1] - 1)
    /\ \A i \in 0..(args[1] - 1) :
         /\ DOMAIN res.val[i] = 0..(args[2] - 1)
         /\ \A j \in 0..(args[2] - 1) :
              res.val[i][j] = IF i < HEIGHT(m) /\ j < WIDTH(m)
                              THEN m[i][j]
                              ELSE args[3]

\* A matrix wider than high grew in height only, with a default value other
\* than 0.
C23_Witness ==
  /\ op = "matrix_grow"
  /\ HEIGHT(m) > 1
  /\ WIDTH(m) > HEIGHT(m)
  /\ args[1] > HEIGHT(m)
  /\ args[2] = WIDTH(m)
  /\ args[3] # 0

\* A matrix with a written cell grew in both directions.
C23_WitnessBoth ==
  /\ op = "matrix_grow"
  /\ writes > 0
  /\ args[1] > HEIGHT(m) + 1
  /\ args[2] > WIDTH(m)
  /\ args[3] # 0

C25_ColumnVectorByColumn ==
  op = "column_vector" =>
    IF args[1] \in 0..(WIDTH(m) - 1)
    THEN res = Ok([i \in 0..(HEIGHT(m) - 1) |-> m[i][args[1]]])
    ELSE IF args[1] >= WIDTH(m)
    THEN res.st = "assert"
    ELSE res = Ok([i \in 0..(HEIGHT(m) - 1) |-> 0])

\* The last column of a count matrix of several rows and columns was
\* returned.
C25_Witness ==
  /\ op = "column_vector"
  /\ HEIGHT(m) > 1 /\ WIDTH(m) > 1
  /\ args[1] = WIDTH(m) - 1
  /\ m = count_matrix(HEIGHT(m), WIDTH(m))
  /\ res.st = "ok"

\* A negative column of a matrix without a zero cell gave the zero vector.
C25_WitnessNegative ==
  /\ op = "column_vector"
  /\ args[1] < 0
  /\ HEIGHT(m) > 1
  /\ m = count_matrix(HEIGHT(m), WIDTH(m))
  /\ res = Ok(vector_fill(HEIGHT(m), 0))

\* A column past the last one ended in a failed assertion.
C25_WitnessPastEnd ==
  /\ op = "column_vector"
  /\ args[1] > WIDTH(m)
  /\ res.st = "assert"

=============================================================================
